---- MODULE Spec2Model ----
(***************************************************************************)
(* State-machine model of pyatv/airplay/__init__.py: the AirPlay stream    *)
(* session (AirPlayStream), the feature registry (AirPlayFeatures) and the *)
(* protocol set-up generator (setup) with its remote-control bridge.       *)
(*                                                                         *)
(* Coroutines are modelled at the granularity of their suspension points:  *)
(* every `await` on I/O ends one action and starts the next.  The asyncio  *)
(* event loop is single-threaded, so the code between two awaits is one    *)
(* atomic step.                                                            *)
(***************************************************************************)
EXTENDS Integers, Sequences, FiniteSets, TLC

\* ------------------------------------------------------------------ bounds
\* Number of play_url invocations made on the one AirPlayStream instance.
MaxCalls == 2
\* Number of AirPlayStream.close() invocations.
MaxCloses == 2
\* Number of invocations of the MRP descriptor's connect (_connect_rc).
MaxConnects == 2
\* Number of invocations of the MRP descriptor's close (_close_rc).
MaxRcCloses == 2
\* Number of distinct background tasks mrp_close() and control.stop() may return.
MaxTasks == 2
\* Number of invocations of the AirPlay descriptor's connect (_connect).
MaxPrimaryConnects == 2
\* Number of invocations of the AirPlay descriptor's close (_close).
MaxPrimaryCloses == 2
\* Number of operations the consumer invokes on one session, all kinds together.
MaxOps == 2
\* Number of play_url and close invocations on one stream session where
\* progress is checked.
MaxStreamOps == 3

Calls == 1..MaxCalls

\* `self._play_task = None`: the empty tracking slot.  Tasks are named by the
\* play_url invocation that created them (1..MaxCalls).
None == 0

\* ---------------------------------------------------------------- variables
VARIABLES
    config,        \* conf.AppleTV: the sequence of configured services
    credentials,   \* service.credentials of the AirPlay service
    stream,        \* AirPlayStream instance: "none" | "constructed" | "failed"
    stream_error,  \* exception raised while obtaining the stream session
    play_task,     \* AirPlayStream._play_task: None or the tracked task
    pc,            \* per play_url invocation: the await it is suspended at
    local,         \* per invocation: os.path.exists(url)
    server,        \* per invocation: local `server` ("none"|"started"|"closed")
    connection,    \* per invocation: local `connection` ("none"|"open"|"closed")
    task,          \* per invocation: state of the future made by ensure_future
    outcome,       \* per invocation: how play_url returned or what it raised
    log,           \* per invocation: counters of the I/O it performed
    created,       \* play tasks in order of creation (ensure_future calls)
    closes,        \* number of AirPlayStream.close() calls made so far
    cleanup_at,    \* per invocation: tasks created when its finally block ran (1 + count), 0 before
    rc_supported,  \* remote_control.is_supported(service)
    cred_type,     \* extract_credentials(service).type
    gen,           \* position of the setup generator
    setup_error,   \* exception raised by the setup generator
    registered,    \* interfaces[...].register calls made: <<interface, protocol>>
    yielded,       \* descriptors yielded by setup so far
    control,       \* remote_control.RemoteControl: "none"|"idle"|"started"|"stopped"
    rc,            \* one record per _connect_rc invocation
    mrp_connected, \* whether the MRP protocol is connected over the channel
    rc_close,      \* bookkeeping of the _close_rc invocations
    feature,       \* last get_feature query and its answer
    primary        \* bookkeeping of the AirPlay descriptor's _connect and _close

streamVars == <<stream, stream_error, play_task, pc, local, server, connection,
                task, outcome, log, created, closes, cleanup_at>>
inputVars == <<config, credentials, rc_supported, cred_type>>
setupVars == <<gen, setup_error, registered, yielded, control, rc, mrp_connected,
               rc_close, feature, primary>>
vars == <<inputVars, streamVars, setupVars>>

\* ------------------------------------------------------------ configuration
AirPlayService == [protocol |-> "AirPlay", identifier |-> "airplay_id", port |-> 7000]

\* conf.AppleTV.get_service(protocol): the service of that protocol, if any.
HasService(cfg, protocol) == \E i \in 1..Len(cfg) : cfg[i].protocol = protocol

\* Values of service.credentials: absent (None), empty string, a credential blob.
CredentialValues == {"None", "", "creds"}

\* Python truthiness of service.credentials.
Truthy(cred) == cred \notin {"None", ""}

\* ------------------------------------------------------------ AirPlayStream
NoLog == [server_starts |-> 0, server_stops |-> 0, connect_attempts |-> 0,
          connects |-> 0, conn_closes |-> 0, verify_attempts |-> 0, verifies |-> 0,
          plays |-> 0, closes_at_start |-> 0]

\* AirPlayStream.__init__: self.service = config.get_service(Protocol.AirPlay);
\* parse_credentials(self.service.credentials) dereferences it, so a missing
\* service raises AttributeError and no instance comes into being.
StreamInitBody ==
    IF HasService(config, "AirPlay")
    THEN /\ stream' = "constructed"
         /\ stream_error' = "none"
         /\ play_task' = None
    ELSE /\ stream' = "failed"
         /\ stream_error' = "AttributeError"
         /\ play_task' = None

NewStream ==
    /\ stream = "none"
    /\ StreamInitBody
    /\ UNCHANGED <<pc, local, server, connection, task, outcome, log, created, closes,
                   cleanup_at>>
    /\ UNCHANGED <<inputVars, setupVars>>

\* task.cancel(): a task that is still running becomes cancelled; cancelling a
\* task that is already done has no effect.
CancelTask(tk, t) == IF tk[t] = "running" THEN [tk EXCEPT ![t] = "cancelled"] ELSE tk

\* Faulty variant: close() cancels every running play task, tracked or not.
CloseBodyCancelsAll ==
    /\ task' = [c \in Calls |-> IF task[c] = "running" THEN "cancelled" ELSE task[c]]
    /\ play_task' = None

\* Faulty variant: close() forgets the task without cancelling it.
CloseBodyNoCancel ==
    IF play_task # None
    THEN /\ play_task' = None
         /\ UNCHANGED task
    ELSE UNCHANGED <<task, play_task>>

\* AirPlayStream.close
CloseBody ==
    IF play_task # None
    THEN /\ task' = CancelTask(task, play_task)
         /\ play_task' = None
    ELSE UNCHANGED <<task, play_task>>

Close ==
    /\ stream = "constructed"
    /\ closes < MaxCloses
    /\ closes' = closes + 1
    /\ CloseBody
    /\ UNCHANGED <<stream, stream_error, pc, local, server, connection, outcome,
                   log, created, cleanup_at>>
    /\ UNCHANGED <<inputVars, setupVars>>

\* Faulty variant: the finally block forgets connection.close().
CloseConnectionSkipped(c) == UNCHANGED <<connection, log>>

\* connection.close() of the finally block: `if connection: connection.close()`.
CloseConnection(c) ==
    IF connection[c] = "open"
    THEN /\ connection' = [connection EXCEPT ![c] = "closed"]
         /\ log' = [log EXCEPT ![c].conn_closes = @ + 1]
    ELSE UNCHANGED <<connection, log>>

\* Faulty variant: the finally block never stops the local web server.
FinallyLeaksServer(c, how) ==
    /\ play_task' = None
    /\ CloseConnection(c)
    /\ outcome' = [outcome EXCEPT ![c] = how]
    /\ cleanup_at' = [cleanup_at EXCEPT ![c] = Len(created) + 1]
    /\ pc' = [pc EXCEPT ![c] = "done"]

\* Faulty variant: the finally block leaves the tracking slot as it is.
FinallyKeepsSlot(c, how) ==
    /\ UNCHANGED play_task
    /\ CloseConnection(c)
    /\ outcome' = [outcome EXCEPT ![c] = how]
    /\ cleanup_at' = [cleanup_at EXCEPT ![c] = Len(created) + 1]
    /\ pc' = [pc EXCEPT ![c] = IF server[c] = "started" THEN "server_close" ELSE "done"]

\* The finally block of play_url up to its await: clear the slot, close the
\* connection, and either suspend in `await server.close()` or leave.
Finally(c, how) ==
    /\ play_task' = None
    /\ CloseConnection(c)
    /\ outcome' = [outcome EXCEPT ![c] = how]
    /\ cleanup_at' = [cleanup_at EXCEPT ![c] = Len(created) + 1]
    /\ pc' = [pc EXCEPT ![c] = IF server[c] = "started" THEN "server_close" ELSE "done"]

\* play_url up to its first await.  The service check raises NotSupportedError
\* before anything else; an existing local path starts a StaticFileWebServer.
PlayUrl(c, exists) ==
    /\ stream = "constructed"
    /\ pc[c] = "idle"
    /\ \A d \in Calls : d < c => pc[d] # "idle"
    /\ IF ~HasService(config, "AirPlay")
       THEN /\ pc' = [pc EXCEPT ![c] = "done"]
            /\ outcome' = [outcome EXCEPT ![c] = "NotSupportedError"]
            /\ UNCHANGED <<local, log>>
       ELSE /\ pc' = [pc EXCEPT ![c] = IF exists THEN "server_start" ELSE "http_connect"]
            /\ local' = [local EXCEPT ![c] = exists]
            /\ log' = [log EXCEPT ![c].closes_at_start = closes,
                                  ![c].connect_attempts = IF exists THEN @ ELSE @ + 1]
            /\ UNCHANGED outcome
    /\ UNCHANGED <<stream, stream_error, play_task, server, connection, task,
                   created, closes>>
    /\ UNCHANGED <<inputVars, setupVars, cleanup_at>>

\* `await server.start()` completes; url = server.file_address.
ServerStarted(c) ==
    /\ pc[c] = "server_start"
    /\ server' = [server EXCEPT ![c] = "started"]
    /\ log' = [log EXCEPT ![c].server_starts = @ + 1, ![c].connect_attempts = @ + 1]
    /\ pc' = [pc EXCEPT ![c] = "http_connect"]
    /\ UNCHANGED <<stream, stream_error, play_task, local, connection, task, outcome,
                   created, closes>>
    /\ UNCHANGED <<inputVars, setupVars, cleanup_at>>

\* Faulty variant: the player is started on the fresh connection, verify is skipped.
HttpConnectOkSkipsVerify(c) ==
    /\ pc[c] = "http_connect"
    /\ connection' = [connection EXCEPT ![c] = "open"]
    /\ task' = [task EXCEPT ![c] = "running"]
    /\ play_task' = c
    /\ created' = Append(created, c)
    /\ log' = [log EXCEPT ![c].connects = @ + 1, ![c].plays = @ + 1]
    /\ pc' = [pc EXCEPT ![c] = "playing"]
    /\ UNCHANGED <<stream, stream_error, local, server, outcome, closes>>
    /\ UNCHANGED <<inputVars, setupVars, cleanup_at>>

\* `connection = await http_connect(...)` succeeds; verify_connection is awaited.
HttpConnectOk(c) ==
    /\ pc[c] = "http_connect"
    /\ connection' = [connection EXCEPT ![c] = "open"]
    /\ log' = [log EXCEPT ![c].connects = @ + 1, ![c].verify_attempts = @ + 1]
    /\ pc' = [pc EXCEPT ![c] = "verify"]
    /\ UNCHANGED <<stream, stream_error, play_task, local, server, task, outcome,
                   created, closes>>
    /\ UNCHANGED <<inputVars, setupVars, cleanup_at>>

\* Faulty variant: a failed http_connect is tried again.
HttpConnectFailRetries(c) ==
    /\ pc[c] = "http_connect"
    /\ log[c].connect_attempts < 3
    /\ log' = [log EXCEPT ![c].connect_attempts = @ + 1]
    /\ UNCHANGED <<stream, stream_error, play_task, pc, local, server, connection, task,
                   outcome, created, closes>>
    /\ UNCHANGED <<inputVars, setupVars, cleanup_at>>

\* http_connect raises: `connection` is still None when the finally block runs.
HttpConnectFail(c) ==
    /\ pc[c] = "http_connect"
    /\ Finally(c, "ConnectionError")
    /\ UNCHANGED <<stream, stream_error, local, server, task, created, closes>>
    /\ UNCHANGED <<inputVars, setupVars>>

\* Faulty variant: the player task is created but not awaited; play_url returns.
VerifyOkNoAwait(c) ==
    /\ pc[c] = "verify"
    /\ task' = [task EXCEPT ![c] = "running"]
    /\ created' = Append(created, c)
    /\ Finally(c, "returned")
    /\ UNCHANGED <<stream, stream_error, local, server, closes>>
    /\ UNCHANGED <<inputVars, setupVars>>

\* Faulty variant: the player task is awaited without being stored in the slot.
VerifyOkUntracked(c) ==
    /\ pc[c] = "verify"
    /\ task' = [task EXCEPT ![c] = "running"]
    /\ created' = Append(created, c)
    /\ log' = [log EXCEPT ![c].verifies = @ + 1, ![c].plays = @ + 1]
    /\ pc' = [pc EXCEPT ![c] = "playing"]
    /\ UNCHANGED <<stream, stream_error, play_task, local, server, connection, outcome,
                   closes>>
    /\ UNCHANGED <<inputVars, setupVars, cleanup_at>>

\* verify_connection returns: the player is created and its play_url coroutine
\* is wrapped with ensure_future, stored in _play_task and awaited.
VerifyOk(c) ==
    /\ pc[c] = "verify"
    /\ task' = [task EXCEPT ![c] = "running"]
    /\ play_task' = c
    /\ created' = Append(created, c)
    /\ log' = [log EXCEPT ![c].verifies = @ + 1, ![c].plays = @ + 1]
    /\ pc' = [pc EXCEPT ![c] = "playing"]
    /\ UNCHANGED <<stream, stream_error, local, server, connection, outcome, closes>>
    /\ UNCHANGED <<inputVars, setupVars, cleanup_at>>

\* verify_connection raises AuthenticationError.
VerifyFail(c) ==
    /\ pc[c] = "verify"
    /\ Finally(c, "AuthenticationError")
    /\ UNCHANGED <<stream, stream_error, local, server, task, created, closes>>
    /\ UNCHANGED <<inputVars, setupVars>>

\* The player task (AirPlayPlayer.play_url) runs to its end on its own.
PlayerCompletes(c) ==
    /\ task[c] = "running"
    /\ task' = [task EXCEPT ![c] = "finished"]
    /\ UNCHANGED <<stream, stream_error, play_task, pc, local, server, connection,
                   outcome, log, created, closes, cleanup_at>>
    /\ UNCHANGED <<inputVars, setupVars>>

\* The player task raises.
PlayerFails(c) ==
    /\ task[c] = "running"
    /\ task' = [task EXCEPT ![c] = "failed"]
    /\ UNCHANGED <<stream, stream_error, play_task, pc, local, server, connection,
                   outcome, log, created, closes, cleanup_at>>
    /\ UNCHANGED <<inputVars, setupVars>>

\* What `await self._play_task` returns or raises once the task is done.
AwaitResult(state) ==
    CASE state = "finished" -> "returned"
      [] state = "failed" -> "PlayerError"
      [] state = "cancelled" -> "CancelledError"

\* `return await self._play_task` resumes once the task is done.
PlayTaskDone(c) ==
    /\ pc[c] = "playing"
    /\ task[c] \in {"finished", "failed", "cancelled"}
    /\ Finally(c, AwaitResult(task[c]))
    /\ UNCHANGED <<stream, stream_error, local, server, task, created, closes>>
    /\ UNCHANGED <<inputVars, setupVars>>

\* `await server.close()` of the finally block completes; play_url ends.
ServerClosed(c) ==
    /\ pc[c] = "server_close"
    /\ server' = [server EXCEPT ![c] = "closed"]
    /\ log' = [log EXCEPT ![c].server_stops = @ + 1]
    /\ pc' = [pc EXCEPT ![c] = "done"]
    /\ UNCHANGED <<stream, stream_error, play_task, local, connection, task, outcome,
                   created, closes>>
    /\ UNCHANGED <<inputVars, setupVars, cleanup_at>>

\* ---------------------------------------------------------- AirPlayFeatures
\* Feature names a caller may ask about (a sample of const.FeatureName).
FeatureNames == {"PlayUrl", "Play", "Volume"}

\* Faulty variant: the credentials are not looked at.
get_feature_any_credentials(feature_name, cred) ==
    IF feature_name = "PlayUrl" THEN "Available" ELSE "Unavailable"

\* AirPlayFeatures.get_feature
get_feature(feature_name, cred) ==
    IF feature_name = "PlayUrl" /\ Truthy(cred) THEN "Available" ELSE "Unavailable"

\* A caller looks the registered Features instance up and queries it.
GetFeature(feature_name) ==
    /\ <<"Features", "AirPlay">> \in registered
    /\ feature' = [name |-> feature_name,
                   info |-> get_feature(feature_name, credentials)]
    /\ UNCHANGED <<inputVars, streamVars>>
    /\ UNCHANGED <<gen, setup_error, registered, yielded, control, rc, mrp_connected,
                   rc_close, primary>>

\* -------------------------------------------------------------------- setup
\* auth.hap_pairing.AuthenticationType
AuthTypes == {"Null", "Legacy", "HAP", "Transient"}

\* Feature set returned by mrp.create_with_connection (opaque to this module).
MrpFeatures == {"Play", "Volume"}

\* Faulty variant: the placeholder takes the AirPlay service's port.
MrpPlaceholderWithPort == [protocol |-> "MRP", identifier |-> "None", port |-> 7000]

\* conf.MrpService(None, 0): no identifier, port 0.
MrpPlaceholder == [protocol |-> "MRP", identifier |-> "None", port |-> 0]

\* Faulty variant: the credential type is not looked at.
BridgeEligibleAnyType(supported, type) == supported

\* The if/elif/else of setup that decides on the remote control channel.
BridgeEligible(supported, type) ==
    IF ~supported THEN FALSE
    ELSE IF type \notin {"HAP", "Transient"} THEN FALSE
    ELSE TRUE

\* Faulty variant: the primary descriptor advertises no feature.
PrimaryDescriptorNoFeatures == [protocol |-> "AirPlay", features |-> {}]

\* yield Protocol.AirPlay, _connect, _close, set([FeatureName.PlayUrl])
PrimaryDescriptor == [protocol |-> "AirPlay", features |-> {"PlayUrl"}]

\* yield Protocol.MRP, _connect_rc, _close_rc, mrp_features
SecondaryDescriptor == [protocol |-> "MRP", features |-> MrpFeatures]

\* Faulty variant: the stream session is not registered.
RegisterFeaturesOnly(reg) == reg \cup {<<"Features", "AirPlay">>}

\* interfaces[Features].register(...); interfaces[Stream].register(...)
Register(reg) == reg \cup {<<"Features", "AirPlay">>, <<"Stream", "AirPlay">>}

\* Faulty variant: the bridge is decided and the placeholder service added
\* before the first yield.
SetupPrimaryEager ==
    /\ gen = "created"
    /\ HasService(config, "AirPlay")
    /\ StreamInitBody
    /\ registered' = Register(registered)
    /\ yielded' = Append(yielded, PrimaryDescriptor)
    /\ gen' = "primary"
    /\ config' = IF BridgeEligible(rc_supported, cred_type)
                 THEN Append(config, MrpPlaceholder) ELSE config
    /\ UNCHANGED <<pc, local, server, connection, task, outcome, log, created, closes,
                   cleanup_at>>
    /\ UNCHANGED <<credentials, rc_supported, cred_type, setup_error, control, rc,
                   mrp_connected, rc_close, feature, primary>>

\* First next() on the generator: everything up to the first yield.  With no
\* AirPlay service the assert raises; a build that strips asserts (python -O)
\* reaches AirPlayStream.__init__, which raises AttributeError.
SetupPrimary ==
    /\ gen = "created"
    /\ IF HasService(config, "AirPlay")
       THEN /\ StreamInitBody
            /\ registered' = Register(registered)
            /\ yielded' = Append(yielded, PrimaryDescriptor)
            /\ gen' = "primary"
            /\ UNCHANGED setup_error
       ELSE /\ \E asserts \in BOOLEAN :
                 IF asserts
                 THEN /\ setup_error' = "AssertionError"
                      /\ UNCHANGED <<stream, stream_error, play_task>>
                 ELSE /\ StreamInitBody
                      /\ setup_error' = stream_error'
            /\ gen' = "failed"
            /\ UNCHANGED <<registered, yielded>>
    /\ UNCHANGED <<pc, local, server, connection, task, outcome, log, created, closes,
                   cleanup_at>>
    /\ UNCHANGED <<inputVars, control, rc, mrp_connected, rc_close, feature, primary>>

\* Second next(): from the first yield to the second yield or to the end.
SetupSecondary ==
    /\ gen = "primary"
    /\ IF BridgeEligible(rc_supported, cred_type)
       THEN /\ control' = "idle"
            /\ config' = Append(config, MrpPlaceholder)
            /\ yielded' = Append(yielded, SecondaryDescriptor)
            /\ gen' = "secondary"
       ELSE /\ gen' = "exhausted"
            /\ UNCHANGED <<control, config, yielded>>
    /\ UNCHANGED <<credentials, rc_supported, cred_type, streamVars>>
    /\ UNCHANGED <<setup_error, registered, rc, mrp_connected, rc_close, feature, primary>>

\* Third next(): the generator returns after the second yield.
SetupEnd ==
    /\ gen = "secondary"
    /\ gen' = "exhausted"
    /\ UNCHANGED <<inputVars, streamVars>>
    /\ UNCHANGED <<setup_error, registered, yielded, control, rc, mrp_connected,
                   rc_close, feature, primary>>

\* The AirPlay descriptor is in the consumer's hands once it has been yielded.
HasPrimary == \E i \in 1..Len(yielded) : yielded[i].protocol = "AirPlay"

\* _connect of the AirPlay descriptor: `pass`.
PrimaryConnect ==
    /\ HasPrimary
    /\ primary.connects < MaxPrimaryConnects
    /\ primary' = [primary EXCEPT !.connects = @ + 1]
    /\ UNCHANGED <<inputVars, streamVars>>
    /\ UNCHANGED <<gen, setup_error, registered, yielded, control, rc, mrp_connected,
                   rc_close, feature>>

\* Faulty variant: _close hands the cancelled play task back as outstanding.
PrimaryCloseBodyReturnsTask ==
    /\ primary' = [primary EXCEPT !.closes = @ + 1,
                                  !.returned = IF play_task # None THEN {play_task} ELSE {}]
    /\ CloseBody

\* The body of _close of the AirPlay descriptor: stream.close(); return set().
PrimaryCloseBody ==
    /\ primary' = [primary EXCEPT !.closes = @ + 1, !.returned = {}]
    /\ CloseBody

\* _close of the AirPlay descriptor.
PrimaryClose ==
    /\ HasPrimary
    /\ primary.closes < MaxPrimaryCloses
    /\ PrimaryCloseBody
    /\ UNCHANGED <<stream, stream_error, pc, local, server, connection, outcome,
                   log, created, closes, cleanup_at>>
    /\ UNCHANGED inputVars
    /\ UNCHANGED <<gen, setup_error, registered, yielded, control, rc, mrp_connected,
                   rc_close, feature>>

\* The MRP descriptor is in the consumer's hands once it has been yielded.
HasSecondary == \E i \in 1..Len(yielded) : yielded[i].protocol = "MRP"

\* No _connect_rc invocation is suspended at an await.
RcIdle == \A i \in 1..Len(rc) : rc[i].result # "pending"

\* _connect_rc up to `await control.start(...)`.
ConnectRc ==
    /\ HasSecondary
    /\ RcIdle
    /\ Len(rc) < MaxConnects
    /\ rc' = Append(rc, [start |-> "pending", mrp_connect |-> "not_called",
                         result |-> "pending"])
    /\ UNCHANGED <<inputVars, streamVars>>
    /\ UNCHANGED <<gen, setup_error, registered, yielded, control, mrp_connected,
                   rc_close, feature, primary>>

\* control.start returned: the else branch awaits mrp_connect().
ControlStartOk ==
    /\ rc # <<>>
    /\ rc[Len(rc)].start = "pending"
    /\ control' = "started"
    /\ rc' = [rc EXCEPT ![Len(rc)].start = "ok", ![Len(rc)].mrp_connect = "pending"]
    /\ UNCHANGED <<inputVars, streamVars>>
    /\ UNCHANGED <<gen, setup_error, registered, yielded, mrp_connected, rc_close, feature, primary>>

\* Faulty variant: mrp_connect() is awaited although control.start raised
\* (`finally` in place of `else`).
ControlStartFailConnects ==
    /\ rc # <<>>
    /\ rc[Len(rc)].start = "pending"
    /\ rc' = [rc EXCEPT ![Len(rc)].start = "failed", ![Len(rc)].mrp_connect = "pending"]
    /\ UNCHANGED <<inputVars, streamVars>>
    /\ UNCHANGED <<gen, setup_error, registered, yielded, control, mrp_connected,
                   rc_close, feature, primary>>

\* control.start raised: `except Exception` logs it and _connect_rc returns.
ControlStartFail ==
    /\ rc # <<>>
    /\ rc[Len(rc)].start = "pending"
    /\ rc' = [rc EXCEPT ![Len(rc)].start = "failed", ![Len(rc)].result = "returned"]
    /\ UNCHANGED <<inputVars, streamVars>>
    /\ UNCHANGED <<gen, setup_error, registered, yielded, control, mrp_connected,
                   rc_close, feature, primary>>

\* mrp_connect() returned: _connect_rc returns.
MrpConnectOk ==
    /\ rc # <<>>
    /\ rc[Len(rc)].mrp_connect = "pending"
    /\ mrp_connected' = TRUE
    /\ rc' = [rc EXCEPT ![Len(rc)].mrp_connect = "ok", ![Len(rc)].result = "returned"]
    /\ UNCHANGED <<inputVars, streamVars>>
    /\ UNCHANGED <<gen, setup_error, registered, yielded, control, rc_close, feature, primary>>

\* mrp_connect() raised: the else branch is outside the try, so it propagates.
MrpConnectFail ==
    /\ rc # <<>>
    /\ rc[Len(rc)].mrp_connect = "pending"
    /\ rc' = [rc EXCEPT ![Len(rc)].mrp_connect = "failed", ![Len(rc)].result = "raised"]
    /\ UNCHANGED <<inputVars, streamVars>>
    /\ UNCHANGED <<gen, setup_error, registered, yielded, control, mrp_connected,
                   rc_close, feature, primary>>

\* Background tasks mrp_close() and control.stop() may hand back.
TaskIds == 1..MaxTasks

\* Faulty variant: control.stop() is left out.
CloseRcBodyNoStop(mrp_tasks, control_tasks) ==
    /\ mrp_connected' = FALSE
    /\ UNCHANGED control
    /\ rc_close' = [calls |-> rc_close.calls + 1,
                    mrp_close_calls |-> rc_close.mrp_close_calls + 1,
                    control_stop_calls |-> rc_close.control_stop_calls,
                    mrp_tasks |-> mrp_tasks,
                    control_tasks |-> {},
                    returned |-> mrp_tasks]

\* The body of _close_rc: tasks = set(); tasks.update(mrp_close());
\* tasks.update(control.stop()); return tasks.
CloseRcBody(mrp_tasks, control_tasks) ==
    /\ mrp_connected' = FALSE
    /\ control' = "stopped"
    /\ rc_close' = [calls |-> rc_close.calls + 1,
                    mrp_close_calls |-> rc_close.mrp_close_calls + 1,
                    control_stop_calls |-> rc_close.control_stop_calls + 1,
                    mrp_tasks |-> mrp_tasks,
                    control_tasks |-> control_tasks,
                    returned |-> mrp_tasks \cup control_tasks]

\* _close_rc; the two sets are what mrp_close() and control.stop() return.
CloseRc(mrp_tasks, control_tasks) ==
    /\ HasSecondary
    /\ RcIdle
    /\ rc_close.calls < MaxRcCloses
    /\ CloseRcBody(mrp_tasks, control_tasks)
    /\ UNCHANGED <<inputVars, streamVars>>
    /\ UNCHANGED <<gen, setup_error, registered, yielded, rc, feature, primary>>

\* ------------------------------------------------------------ specification
InitInputs ==
    /\ config \in {<<>>, <<AirPlayService>>}
    /\ credentials \in CredentialValues
    /\ rc_supported \in BOOLEAN
    /\ cred_type \in AuthTypes

InitSetup ==
    /\ gen = "created"
    /\ setup_error = "none"
    /\ registered = {}
    /\ yielded = <<>>
    /\ control = "none"
    /\ rc = <<>>
    /\ mrp_connected = FALSE
    /\ rc_close = [calls |-> 0, mrp_close_calls |-> 0, control_stop_calls |-> 0,
                   mrp_tasks |-> {}, control_tasks |-> {}, returned |-> {}]
    /\ feature = [name |-> "none", info |-> "none"]
    /\ primary = [connects |-> 0, closes |-> 0, returned |-> {}]

InitStream ==
    /\ stream = "none"
    /\ stream_error = "none"
    /\ play_task = None
    /\ pc = [c \in Calls |-> "idle"]
    /\ local = [c \in Calls |-> FALSE]
    /\ server = [c \in Calls |-> "none"]
    /\ connection = [c \in Calls |-> "none"]
    /\ task = [c \in Calls |-> "none"]
    /\ outcome = [c \in Calls |-> "pending"]
    /\ log = [c \in Calls |-> NoLog]
    /\ created = <<>>
    /\ closes = 0
    /\ cleanup_at = [c \in Calls |-> 0]

Init == InitInputs /\ InitStream /\ InitSetup

\* The stream session on its own: the inputs the session never reads are fixed.
InitStreamOnly ==
    /\ Init
    /\ credentials = "creds"
    /\ rc_supported = FALSE
    /\ cred_type = "Null"

NextStream ==
    \/ NewStream
    \/ Close
    \/ \E c \in Calls, exists \in BOOLEAN : PlayUrl(c, exists)
    \/ \E c \in Calls : ServerStarted(c)
    \/ \E c \in Calls : HttpConnectOk(c)
    \/ \E c \in Calls : HttpConnectFail(c)
    \/ \E c \in Calls : VerifyOk(c)
    \/ \E c \in Calls : VerifyFail(c)
    \/ \E c \in Calls : PlayerCompletes(c)
    \/ \E c \in Calls : PlayerFails(c)
    \/ \E c \in Calls : PlayTaskDone(c)
    \/ \E c \in Calls : ServerClosed(c)

SpecStream == InitStreamOnly /\ [][NextStream]_vars

NextSetup ==
    \/ SetupPrimary
    \/ SetupSecondary
    \/ SetupEnd
    \/ ConnectRc
    \/ ControlStartOk
    \/ ControlStartFail
    \/ MrpConnectOk
    \/ MrpConnectFail
    \/ \E a \in SUBSET TaskIds, b \in SUBSET TaskIds : CloseRc(a, b)

\* The bridge on its own: service.credentials is read by get_feature only.
InitSetupOnly == Init /\ credentials = "creds"

SpecSetup == InitSetupOnly /\ [][NextSetup]_vars

\* The feature registry, queried at any point of the set-up sequence.
NextFeatures ==
    \/ SetupPrimary
    \/ SetupSecondary
    \/ SetupEnd
    \/ \E f \in FeatureNames : GetFeature(f)

SpecFeatures == Init /\ [][NextFeatures]_vars

\* The event loop resumes a coroutine whose awaited task is done, and the
\* local web server's close() completes.
FairStream ==
    \A c \in Calls : WF_vars(PlayTaskDone(c)) /\ WF_vars(ServerClosed(c))

\* The consumer's invocations on the stream session, play_url and close
\* together.
StreamOps == Cardinality({c \in Calls : pc[c] # "idle"}) + closes

\* The stream session with at most MaxStreamOps invocations by the consumer;
\* the steps an invocation has started run on without limit.
NextStreamBudget ==
    \/ NewStream
    \/ StreamOps < MaxStreamOps /\ Close
    \/ StreamOps < MaxStreamOps /\ \E c \in Calls, exists \in BOOLEAN : PlayUrl(c, exists)
    \/ \E c \in Calls : ServerStarted(c)
    \/ \E c \in Calls : HttpConnectOk(c)
    \/ \E c \in Calls : HttpConnectFail(c)
    \/ \E c \in Calls : VerifyOk(c)
    \/ \E c \in Calls : VerifyFail(c)
    \/ \E c \in Calls : PlayerCompletes(c)
    \/ \E c \in Calls : PlayerFails(c)
    \/ \E c \in Calls : PlayTaskDone(c)
    \/ \E c \in Calls : ServerClosed(c)

FairSpecStream == InitStreamOnly /\ [][NextStreamBudget]_vars /\ FairStream

\* One session as its consumer drives it: the set-up sequence, both
\* descriptors, the feature registry and the stream session together.  The
\* consumer invokes at most MaxOps operations; the steps they start run on.
\* What the session does not depend on is sampled: one feature query, and
\* task sets that are empty or full.
Ops ==
    Cardinality({c \in Calls : pc[c] # "idle"}) + closes + primary.connects
        + primary.closes + Len(rc) + rc_close.calls

InitSession == Init /\ credentials = "creds"

NextSession ==
    \/ SetupPrimary
    \/ SetupSecondary
    \/ SetupEnd
    \/ GetFeature("PlayUrl")
    \/ Ops < MaxOps /\ PrimaryConnect
    \/ Ops < MaxOps /\ PrimaryClose
    \/ Ops < MaxOps /\ Close
    \/ Ops < MaxOps /\ \E c \in Calls, exists \in BOOLEAN : PlayUrl(c, exists)
    \/ \E c \in Calls : ServerStarted(c)
    \/ \E c \in Calls : HttpConnectOk(c)
    \/ \E c \in Calls : HttpConnectFail(c)
    \/ \E c \in Calls : VerifyOk(c)
    \/ \E c \in Calls : VerifyFail(c)
    \/ \E c \in Calls : PlayerCompletes(c)
    \/ \E c \in Calls : PlayerFails(c)
    \/ \E c \in Calls : PlayTaskDone(c)
    \/ \E c \in Calls : ServerClosed(c)
    \/ Ops < MaxOps /\ ConnectRc
    \/ ControlStartOk
    \/ ControlStartFail
    \/ MrpConnectOk
    \/ MrpConnectFail
    \/ Ops < MaxOps /\ \E a \in {{}, TaskIds}, b \in {{}, TaskIds} : CloseRc(a, b)

SpecSession == InitSession /\ [][NextSession]_vars

\* ================================================================== claims
\* Ways a play_url invocation that passed the service check can end.
Ends == {"returned", "ConnectionError", "AuthenticationError", "PlayerError",
         "CancelledError"}

\* Invocation c returns or raises in this step.
Leaves(c) == pc[c] # "done" /\ pc'[c] = "done" /\ outcome'[c] \in Ends

\* What holds of invocation c's own resources when it leaves: the connection
\* is closed iff it was opened, the server is stopped iff it was started.
Released(c) ==
    /\ (connection'[c] = "closed") <=> (log'[c].connects > 0)
    /\ connection'[c] # "open"
    /\ log'[c].conn_closes = log'[c].connects
    /\ (server'[c] = "closed") <=> (log'[c].server_starts > 0)
    /\ server'[c] # "started"
    /\ log'[c].server_stops = log'[c].server_starts

\* C1 as stated: whenever a play_url invocation that passed the service check
\* returns or raises, the tracking slot is empty, its connection is closed iff
\* it opened one and its server is stopped iff it started one.
C1_SlotEmptyOnReturn ==
    [][\A c \in Calls : Leaves(c) => (play_task' = None /\ Released(c))]_vars

\* C1 amended: whenever a play_url invocation that passed the service check
\* returns or raises, the tracking slot does not hold that invocation's task
\* and is empty unless another invocation on the same instance is playing; its
\* connection is closed iff it opened one, its server is stopped iff it
\* started one, and no finished invocation keeps a connection or server open.
C1_CleanupOnReturn ==
    /\ [][\A c \in Calls : Leaves(c) =>
            /\ play_task' # c
            /\ (\A d \in Calls : pc'[d] # "playing") => play_task' = None
            /\ Released(c)]_vars
    /\ [](\A c \in Calls : pc[c] = "done" =>
            connection[c] # "open" /\ server[c] # "started")

\* A cancelled invocation that served a local file has finished, with its
\* connection closed and its server stopped.
C1_Witness ==
    \E c \in Calls :
        /\ pc[c] = "done" /\ outcome[c] = "CancelledError"
        /\ connection[c] = "closed" /\ server[c] = "closed"
        /\ play_task = None

\* C2 as stated: with no AirPlay service configured, the only error a caller
\* meets on the way to playing a URL is the NotSupportedError of play_url, and
\* nothing else has happened (no server, no connection, no verify, no player,
\* slot untouched).
C2_NoServiceNotSupported ==
    ~HasService(config, "AirPlay") =>
        /\ stream_error = "none"
        /\ play_task = None
        /\ \A c \in Calls :
              /\ pc[c] \in {"idle", "done"}
              /\ pc[c] = "done" => outcome[c] = "NotSupportedError"
              /\ log[c] = NoLog

\* C3 as stated: a close() made while an invocation is Playing (its player
\* task running) cancels that invocation's task.
C3_CloseCancelsPlaying ==
    [][\A c \in Calls :
          (closes' = closes + 1 /\ pc[c] = "playing" /\ task[c] = "running")
              => task'[c] = "cancelled"]_vars

\* C3 amended: a close() made while the tracking slot holds the running task
\* of a Playing invocation cancels that task and empties the slot, and every
\* cancelled invocation eventually ends with CancelledError, its connection
\* closed, its server (if any) stopped and the slot not holding its task.
C3_CloseCancelsTracked ==
    /\ [][\A c \in Calls :
            (closes' = closes + 1 /\ play_task = c /\ task[c] = "running")
                => (task'[c] = "cancelled" /\ play_task' = None)]_vars
    /\ \A c \in Calls :
          (task[c] = "cancelled") ~>
              (/\ pc[c] = "done" /\ outcome[c] = "CancelledError"
               /\ connection[c] = "closed" /\ server[c] # "started"
               /\ play_task # c)

\* close() has cancelled a playing invocation that serves a local file.
C3_Witness ==
    \E c \in Calls :
        /\ task[c] = "cancelled" /\ pc[c] = "playing" /\ local[c]
        /\ closes > 0 /\ play_task = None

\* C4: an invocation on an existing local path starts one server, and has
\* started it before it opens the connection; once the invocation has ended
\* (however it ended) the server has been stopped exactly once; an invocation
\* on anything else never starts or stops a server.
C4_OneServerPerLocalCall ==
    \A c \in Calls :
        /\ log[c].server_starts <= 1
        /\ log[c].server_stops <= log[c].server_starts
        /\ (local[c] /\ pc[c] \notin {"idle", "server_start"})
              => log[c].server_starts = 1
        /\ log[c].connects > 0 => log[c].server_starts = (IF local[c] THEN 1 ELSE 0)
        /\ (local[c] /\ pc[c] = "done") => log[c].server_stops = 1
        /\ pc[c] # "done" => log[c].server_stops = 0
        /\ ~local[c] => (log[c].server_starts = 0 /\ log[c].server_stops = 0
                         /\ server[c] = "none")

\* A local-file invocation whose verify failed has ended with its server
\* started once and stopped once.
C4_Witness ==
    \E c \in Calls :
        /\ local[c] /\ pc[c] = "done" /\ outcome[c] = "AuthenticationError"
        /\ log[c].server_starts = 1 /\ log[c].server_stops = 1

\* Invocations whose player task is running.
Live == {c \in Calls : pc[c] = "playing" /\ task[c] = "running"}

\* C5 as stated: at most one playback of the instance is Playing at any time.
C5_AtMostOnePlaying == Cardinality(Live) <= 1

\* C5 amended: at most one task is tracked: whenever the slot is not empty it
\* holds the most recently created task, and that task's invocation is still
\* Playing; a play_url started while another is Playing does not cancel it,
\* so untracked playbacks may be live beside the tracked one.
C5_SlotTracksNewestPlaying ==
    play_task # None =>
        /\ created # <<>>
        /\ play_task = created[Len(created)]
        /\ pc[play_task] = "playing"

\* Two playbacks are live at once and the slot holds the newer one.
C5_Witness ==
    /\ Cardinality(Live) = 2
    /\ play_task = created[Len(created)]
    /\ play_task # created[1]

\* The eligibility table of the bridge: capability supported and a HAP
\* (persistent-pair) or transient-pair credential.
EligibleByTable == rc_supported /\ cred_type \in {"HAP", "Transient"}

\* C6: the sequence yielded by setup on a configured AirPlay service has one
\* or two descriptors: first the AirPlay one with feature set {PlayUrl}, then
\* one MRP descriptor when the bridge is eligible and nothing otherwise; no
\* protocol appears twice.
C6_SetupSequence ==
    /\ Len(yielded) <= 2
    /\ \A i, j \in 1..Len(yielded) : yielded[i].protocol = yielded[j].protocol => i = j
    /\ gen \in {"created", "failed"} => yielded = <<>>
    /\ gen \in {"primary", "secondary", "exhausted"} =>
          yielded[1] = [protocol |-> "AirPlay", features |-> {"PlayUrl"}]
    /\ gen = "primary" => Len(yielded) = 1
    /\ gen = "secondary" => (EligibleByTable /\ Len(yielded) = 2)
    /\ gen = "exhausted" => Len(yielded) = (IF EligibleByTable THEN 2 ELSE 1)
    /\ Len(yielded) = 2 => yielded[2].protocol = "MRP"

\* The generator is exhausted after yielding the AirPlay and the MRP descriptor.
C6_Witness ==
    /\ gen = "exhausted" /\ Len(yielded) = 2
    /\ yielded[1].protocol = "AirPlay" /\ yielded[2].protocol = "MRP"

\* C7: the bridge decision depends on (capability supported, credential type)
\* only: once setup has run past the decision, the RemoteControl owner exists
\* exactly when the capability is supported and the type is HAP or Transient;
\* for every other pair of flag and type (Null, Legacy, Transient, HAP) the
\* decision is negative, and without the capability the type has no influence.
C7_EligibilityTable ==
    /\ \A s \in BOOLEAN, t \in AuthTypes :
          BridgeEligible(s, t) <=> (s /\ t \in {"HAP", "Transient"})
    /\ \A t \in AuthTypes : BridgeEligible(FALSE, t) = BridgeEligible(FALSE, "Null")
    /\ gen \in {"secondary", "exhausted"} => ((control # "none") <=> EligibleByTable)
    /\ gen \in {"created", "primary", "failed"} => control = "none"

\* Setup has decided for the bridge on a supported device with transient
\* credentials.
C7_Witness ==
    /\ gen \in {"secondary", "exhausted"}
    /\ rc_supported /\ cred_type = "Transient"
    /\ control # "none"

\* C8: once setup has run past an eligible bridge decision the MRP descriptor
\* has been yielded with its feature set, whatever happens in its connect; a
\* connect whose control.start failed returns without raising and does not
\* call mrp_connect; mrp_connect is called only after control.start succeeded;
\* and MRP is connected only if some connect got that far.
C8_FailedStartAbsorbed ==
    /\ (EligibleByTable /\ gen \in {"secondary", "exhausted"}) =>
          (Len(yielded) = 2 /\ yielded[2] = [protocol |-> "MRP", features |-> MrpFeatures])
    /\ \A i \in 1..Len(rc) :
          /\ rc[i].start = "failed" =>
                (rc[i].result = "returned" /\ rc[i].mrp_connect = "not_called")
          /\ rc[i].mrp_connect # "not_called" => rc[i].start = "ok"
    /\ mrp_connected => \E i \in 1..Len(rc) : rc[i].mrp_connect = "ok"
    /\ (\A i \in 1..Len(rc) : rc[i].start # "ok") => control # "started"

\* A connect of the MRP descriptor has returned after control.start failed.
C8_Witness ==
    /\ rc # <<>>
    /\ rc[1].start = "failed" /\ rc[1].result = "returned"
    /\ ~mrp_connected
    /\ Len(yielded) = 2

\* C9: get_feature answers Available exactly for PlayUrl on a service with
\* non-empty credentials, Unavailable for PlayUrl with empty or absent
\* credentials and for every other feature, and answering changes nothing
\* but the answer.
C9_FeatureAvailability ==
    /\ [](feature.name # "none" =>
            feature.info = (IF feature.name = "PlayUrl" /\ credentials \notin {"None", ""}
                            THEN "Available" ELSE "Unavailable"))
    /\ [][feature' # feature =>
            UNCHANGED <<inputVars, streamVars, gen, setup_error, registered, yielded,
                        control, rc, mrp_connected, rc_close, primary>>]_vars

\* PlayUrl was asked about on a service whose credentials are the empty string.
C9_Witness ==
    /\ feature.name = "PlayUrl" /\ credentials = "" /\ feature.info = "Unavailable"

\* C10: every _close_rc has called both mrp_close() and control.stop(), and
\* has returned exactly the union of the task sets the two handed back.
C10_CloseReturnsUnion ==
    /\ rc_close.mrp_close_calls = rc_close.calls
    /\ rc_close.control_stop_calls = rc_close.calls
    /\ rc_close.returned = rc_close.mrp_tasks \cup rc_close.control_tasks
    /\ rc_close.calls > 0 => control = "stopped" \/ \E i \in 1..Len(rc) : rc[i].start = "ok"

\* _close_rc ran after a connect whose control.start failed, and the two
\* calls handed back different non-empty task sets.
C10_Witness ==
    /\ rc_close.calls > 0
    /\ \E i \in 1..Len(rc) : rc[i].start = "failed"
    /\ rc_close.mrp_tasks # {} /\ rc_close.control_tasks # {}
    /\ rc_close.mrp_tasks # rc_close.control_tasks
    /\ rc_close.returned = TaskIds

\* Everything but the bookkeeping of the AirPlay descriptor's own calls.
allButPrimary == <<inputVars, streamVars, gen, setup_error, registered, yielded,
                   control, rc, mrp_connected, rc_close, feature>>

\* C11: every _close of the AirPlay descriptor leaves the tracking slot empty
\* and returns the empty task set, touches no play_url invocation's
\* connection, server or position, whether or not _connect was called before;
\* a _close made while the slot is empty (no playback tracked, or right after
\* another close) changes no state at all.
C11_PrimaryCloseSafe ==
    [][primary'.closes = primary.closes + 1 =>
          /\ play_task' = None
          /\ primary'.returned = {}
          /\ UNCHANGED <<inputVars, pc, connection, server, outcome, log, stream,
                         stream_error>>
          /\ play_task = None => UNCHANGED allButPrimary]_vars

\* _close of the AirPlay descriptor was called twice, with no _connect before
\* and no play_url ever started.
C11_Witness ==
    /\ primary.closes = 2 /\ primary.connects = 0
    /\ \A c \in Calls : pc[c] = "idle"
    /\ play_task = None /\ primary.returned = {}

\* Invocations that created a play task.
Tracked == {created[i] : i \in 1..Len(created)}

\* C12: within one play_url invocation the server (if any) has been started
\* before the connection is attempted, the connection is open before verify
\* is attempted, and the player task is created and tracked only after verify
\* has succeeded; an invocation whose connect or verify failed has never
\* started the player nor had a task in the slot.
C12_StepsInOrder ==
    \A c \in Calls :
        /\ log[c].connect_attempts > 0 =>
              log[c].server_starts = (IF local[c] THEN 1 ELSE 0)
        /\ log[c].verify_attempts > 0 =>
              (log[c].connects = 1 /\ log[c].connect_attempts = 1)
        /\ log[c].plays > 0 => (log[c].verifies = 1 /\ log[c].verify_attempts = 1)
        /\ (task[c] # "none") <=> (log[c].plays = 1)
        /\ (c \in Tracked) <=> (log[c].plays = 1)
        /\ play_task = c => log[c].verifies = 1
        /\ pc[c] = "verify" => connection[c] = "open"
        /\ outcome[c] \in {"ConnectionError", "AuthenticationError"} =>
              (log[c].plays = 0 /\ task[c] = "none" /\ c \notin Tracked /\ play_task # c)

\* One invocation on a local file plays after server start, connect and
\* verify, while another one has failed in connect without a task.
C12_Witness ==
    \E c, d \in Calls :
        /\ pc[c] = "playing" /\ local[c] /\ play_task = c
        /\ log[c].server_starts = 1 /\ log[c].connects = 1 /\ log[c].verifies = 1
        /\ outcome[d] = "ConnectionError" /\ task[d] = "none"

\* C13 as stated: no failure inside the MRP descriptor's connect surfaces
\* (neither a failed control.start nor a failed mrp_connect makes it raise),
\* while a failed connect, verify or player always reaches the caller of
\* play_url as that error.
C13_OptionalAbsorbed ==
    /\ \A i \in 1..Len(rc) :
          (rc[i].start = "failed" \/ rc[i].mrp_connect = "failed")
              => rc[i].result = "returned"
    /\ \A i \in 1..Len(rc) : rc[i].result # "raised"
    /\ \A c \in Calls :
          /\ (log[c].connect_attempts = 1 /\ log[c].connects = 0 /\ cleanup_at[c] > 0)
                => outcome[c] = "ConnectionError"
          /\ (log[c].verify_attempts = 1 /\ log[c].verifies = 0 /\ cleanup_at[c] > 0)
                => outcome[c] = "AuthenticationError"
          /\ (task[c] = "failed" /\ cleanup_at[c] > 0) => outcome[c] = "PlayerError"

\* C14: within one play_url invocation connect, verify and the player are each
\* attempted at most once; the first failure is the invocation's outcome, no
\* later step is attempted after it, and the outcome is set by the cleanup
\* that closes the connection.
C14_NoRetry ==
    \A c \in Calls :
        /\ log[c].connect_attempts <= 1
        /\ log[c].verify_attempts <= 1
        /\ log[c].plays <= 1
        /\ outcome[c] = "ConnectionError" =>
              /\ log[c].connect_attempts = 1 /\ log[c].connects = 0
              /\ log[c].verify_attempts = 0 /\ log[c].plays = 0
        /\ outcome[c] = "AuthenticationError" =>
              /\ log[c].connects = 1 /\ log[c].verify_attempts = 1
              /\ log[c].verifies = 0 /\ log[c].plays = 0
        /\ outcome[c] = "PlayerError" => (log[c].plays = 1 /\ task[c] = "failed")
        /\ outcome[c] \in Ends =>
              /\ pc[c] \in {"server_close", "done"}
              /\ cleanup_at[c] > 0
              /\ connection[c] # "open"
              /\ log[c].conn_closes = log[c].connects

\* An invocation has ended with the player's failure after one attempt of
\* each step.
C14_Witness ==
    \E c \in Calls :
        /\ pc[c] = "done" /\ outcome[c] = "PlayerError"
        /\ log[c].connect_attempts = 1 /\ log[c].verify_attempts = 1 /\ log[c].plays = 1

\* C15: while the player task of an invocation is running, the invocation is
\* suspended in its await with the connection open and no outcome yet; and a
\* player task that finishes on its own makes play_url return.
C15_PendingWhilePlaying ==
    /\ [](\A c \in Calls :
            task[c] = "running" =>
                (pc[c] = "playing" /\ connection[c] = "open" /\ outcome[c] = "pending"))
    /\ \A c \in Calls :
          (task[c] = "finished") ~> (pc[c] = "done" /\ outcome[c] = "returned")

\* play_url has returned after the player finished, with no close() ever made.
C15_Witness ==
    \E c \in Calls :
        /\ pc[c] = "done" /\ outcome[c] = "returned" /\ task[c] = "finished"
        /\ closes = 0 /\ play_task = None

\* C16: once a descriptor has been yielded, and so whenever a connect of
\* either descriptor has been invoked, the Features and the Stream instance
\* are registered for AirPlay and the stream session exists.
C16_RegisteredBeforeConnect ==
    (yielded # <<>> \/ primary.connects > 0 \/ rc # <<>>) =>
        /\ <<"Features", "AirPlay">> \in registered
        /\ <<"Stream", "AirPlay">> \in registered
        /\ stream = "constructed"

\* Both descriptors' connects have been invoked, after both registrations.
C16_Witness ==
    /\ primary.connects > 0 /\ rc # <<>>
    /\ registered = {<<"Features", "AirPlay">>, <<"Stream", "AirPlay">>}

\* Number of MRP services in the configuration.
MrpEntries == Cardinality({i \in 1..Len(config) : config[i].protocol = "MRP"})

\* C17: the configuration changes in one step only: the set-up sequence,
\* advanced past the AirPlay descriptor with an eligible bridge, appends the
\* MRP placeholder (no identifier, port 0).  It holds one placeholder after
\* that step and none before or when the bridge is not eligible; get_feature,
\* play_url, close and both descriptors' connect and close leave it alone.
C17_ConfigOnlyByBridge ==
    /\ [](MrpEntries = (IF gen \in {"secondary", "exhausted"} /\ EligibleByTable
                        THEN 1 ELSE 0))
    /\ [][config' # config =>
            /\ gen = "primary" /\ gen' = "secondary"
            /\ config' = Append(config, [protocol |-> "MRP", identifier |-> "None",
                                         port |-> 0])]_vars

\* The placeholder is there, and the MRP descriptor was connected and closed.
C17_Witness ==
    /\ MrpEntries = 1 /\ Len(config) = 2
    /\ rc # <<>> /\ rc_close.calls > 0

\* C18 as stated: whenever some play task is live, the slot holds the most
\* recently created live one.
C18_SlotTracksLive ==
    \A k \in 1..Len(created) :
        (created[k] \in Live /\ \A j \in (k + 1)..Len(created) : created[j] \notin Live)
            => play_task = created[k]

\* C18 amended: a live play task that is the most recently created one is in
\* the slot as long as no other invocation on the instance has run its
\* finally block since the task was created.
C18_SlotTracksUndisturbed ==
    \A k \in 1..Len(created) :
        (/\ k = Len(created)
         /\ task[created[k]] = "running"
         /\ \A d \in Calls \ {created[k]} : cleanup_at[d] <= k)
            => play_task = created[k]

\* A second invocation, started after the first one had ended, is live and
\* tracked.
C18_Witness ==
    /\ created = <<1, 2>>
    /\ pc[1] = "done" /\ outcome[1] = "returned" /\ cleanup_at[1] = 2
    /\ task[2] = "running" /\ play_task = 2

\* C19: a close() made while the slot is empty changes nothing of the stream
\* session or of any invocation in flight: nothing is cancelled, no
\* connection is closed, no server stopped, and every invocation stays at
\* the await it was suspended at.
C19_CloseWithoutTaskIsNoop ==
    [][(closes' = closes + 1 /\ play_task = None) =>
          UNCHANGED <<play_task, task, pc, local, server, connection, outcome, log,
                      created, cleanup_at, stream, stream_error, inputVars,
                      setupVars>>]_vars

\* The only invocation made was closed upon while it was connecting or
\* verifying, and is now playing with its task running and tracked.
C19_Witness ==
    \E c \in Calls :
        /\ pc[c] = "playing" /\ task[c] = "running" /\ play_task = c
        /\ closes > log[c].closes_at_start
        /\ \A d \in Calls \ {c} : pc[d] = "idle"

\* C20: until the set-up sequence is advanced past the AirPlay descriptor no
\* RemoteControl exists, the configuration is the one setup was given and no
\* MRP descriptor is out, whatever is done with the AirPlay descriptor; and
\* the channel is started only inside a connect of the MRP descriptor.
C20_BridgeIsLazy ==
    /\ gen \in {"created", "primary", "failed"} =>
          /\ control = "none"
          /\ MrpEntries = 0
          /\ Len(config) <= 1
          /\ Len(yielded) <= 1
          /\ rc = <<>> /\ rc_close.calls = 0
    /\ control = "started" => \E i \in 1..Len(rc) : rc[i].start = "ok"
    /\ (rc = <<>> /\ rc_close.calls = 0) => control \in {"none", "idle"}

\* The consumer took only the AirPlay descriptor of an eligible device,
\* connected and closed it, and the configuration is untouched.
C20_Witness ==
    /\ gen = "primary" /\ EligibleByTable
    /\ primary.connects > 0 /\ primary.closes > 0
    /\ config = <<AirPlayService>> /\ control = "none"

====
